---- MODULE Spec2Model ----
\* Verification model of the petrel orm package (src/orm/orm.go):
\* the statement descriptor Stmt, the SQL compilers and the row mapper.
\*
\* Go strings are modelled as sequences of bytes (0..255) where the code
\* inspects their characters (column names, table list), identifiers as
\* sequences of runes (what range k yields), and the text written to a
\* bytes.Buffer as the sequence of fragments written to it, in order.
EXTENDS Integers, Sequences, FiniteSets, TLC

VARIABLES
    s,          \* the Stmt descriptor: table, where, sort, order, group, offset, limit
    pc,         \* position of the caller: "idle" between calls, "exec" (Query before db.Query),
                \* "rows" (Query loop), "count" (Count before its scan), "returned"
    op,         \* the last operation called on the descriptor
    kind,       \* shape of the argument of the last Query / SQLQueryBuilder / Insert / Update
    rt,         \* record type of the last call: sequence of struct fields
    target,     \* what the caller's result pointer points to
    target0,    \* the target as it was when the call started
    rows,       \* rows the cursor has not yielded yet
    rows0,      \* rows the cursor held when it was acquired
    rv,         \* Query's local rv (the collection being accumulated)
    scanned,    \* rows scanned successfully by the running / last Query
    nexts,      \* times rows.Next() returned true in the running / last Query
    cursor,     \* number of open (acquired, not yet closed) cursors
    acquired,   \* number of cursors the last call acquired
    ret,        \* outcome of the last call
    sql,        \* fragments of the SQL text built by the last call (<<>> if none)
    refs,       \* bound arguments built by the last Insert / Update
    executed,   \* whether the last call handed its SQL to the storage handle
    s0,         \* the descriptor as it was when the last call started
    forced,     \* a single-record Query/SQLQueryBuilder ran and Limit was not called since
    dbok,       \* whether db.Query / db.Exec of the last call succeeded
    ident,      \* name resolution: the field identifier (runes)
    tag,        \* name resolution: the field's db tag (bytes)
    name,       \* name resolution: the resolved column name (bytes)
    epc         \* name resolution: "start" or "done"

vars == <<s, pc, op, kind, rt, target, target0, rows, rows0, rv, scanned, nexts,
          cursor, acquired, ret, sql, refs, executed, s0, forced, dbok,
          ident, tag, name, epc>>

execVars == <<s, pc, op, kind, rt, target, target0, rows, rows0, rv, scanned, nexts,
              cursor, acquired, ret, sql, refs, executed, s0, forced, dbok>>

escVars == <<ident, tag, name, epc>>

-----------------------------------------------------------------------------
\* Bounds

MaxLen == 3        \* longest enumerated identifier (runes)
MaxRows == 2       \* most rows a cursor holds
MaxFields == 2     \* most fields of an enumerated record type

-----------------------------------------------------------------------------
\* Text helpers

RECURSIVE SeqsUpTo(_, _)
\* all sequences over S of length at most n
SeqsUpTo(S, n) ==
    IF n = 0 THEN {<<>>}
    ELSE LET shorter == SeqsUpTo(S, n - 1)
         IN  shorter \cup {Append(q, x) : q \in shorter, x \in S}

IsInjective(q) == \A i, j \in 1..Len(q) : q[i] = q[j] => i = j

LowerChars == <<"a","b","c","d","e","f","g","h","i","j","k","l","m",
                "n","o","p","q","r","s","t","u","v","w","x","y","z">>
UpperChars == <<"A","B","C","D","E","F","G","H","I","J","K","L","M",
                "N","O","P","Q","R","S","T","U","V","W","X","Y","Z">>

\* the character a byte prints as; bytes outside ASCII print as \x<decimal>
Chr(b) ==
    IF b \in 97..122 THEN LowerChars[b - 96]
    ELSE IF b \in 65..90 THEN UpperChars[b - 64]
    ELSE IF b \in 48..57 THEN ToString(b - 48)
    ELSE IF b = 32 THEN " "
    ELSE IF b = 44 THEN ","
    ELSE IF b = 46 THEN "."
    ELSE IF b = 95 THEN "_"
    ELSE "\\x" \o ToString(b)

RECURSIVE Str(_)
\* string(buf): the text of a byte sequence
Str(b) == IF b = <<>> THEN "" ELSE Chr(Head(b)) \o Str(Tail(b))

RECURSIVE Join(_)
\* bytes.Buffer.String(): the fragments written so far, concatenated
Join(bs) == IF bs = <<>> THEN "" ELSE Head(bs) \o Join(Tail(bs))

\* strings.Contains(name, ".")
ContainsDot(b) == \E i \in 1..Len(b) : b[i] = 46

\* strings.Split(table, ",")[0]
FirstTable(table) ==
    IF \E i \in 1..Len(table) : table[i] = 44
    THEN LET i == CHOOSE i \in 1..Len(table) :
                      table[i] = 44 /\ \A j \in 1..(i - 1) : table[j] # 44
         IN  SubSeq(table, 1, i - 1)
    ELSE table

\* bytes.Buffer.Truncate(bs.Len() - 2); every write that precedes it ends in
\* a fragment of two characters, so it removes exactly the last fragment
Truncate2(bs) ==
    IF bs # <<>> /\ Len(bs[Len(bs)]) = 2 THEN SubSeq(bs, 1, Len(bs) - 1) ELSE bs

-----------------------------------------------------------------------------
\* Name resolution

\* unicode.IsUpper on the runes the model enumerates: ASCII, Latin-1 and
\* Latin Extended-A capitals
IsUpper(c) ==
    \/ c \in 65..90
    \/ c \in 192..214
    \/ c \in 216..222
    \/ (c \in 256..310 /\ c % 2 = 0)

RECURSIVE FieldEscapeFrom(_, _, _, _)
\* the loop of FieldEscape from rune i on, with the flag up and the buffer buf
FieldEscapeFrom(k, i, up, buf) ==
    IF i > Len(k) THEN buf
    ELSE LET c == k[i] IN
         IF IsUpper(c)
         THEN FieldEscapeFrom(k, i + 1, TRUE,
                  Append(IF ~up THEN Append(buf, 95) ELSE buf, (c + 32) % 256))
         ELSE FieldEscapeFrom(k, i + 1, FALSE, Append(buf, c % 256))

FieldEscape(k) == FieldEscapeFrom(k, 1, TRUE, <<>>)

\* name := f.Tag.Get("db"); if name == "" { name = FieldEscape(f.Name) }
ColumnName(fname, dbtag) == IF dbtag = <<>> THEN FieldEscape(fname) ELSE dbtag

-----------------------------------------------------------------------------
\* Record types: what reflect reports of a struct type, field by field.
\* exported is PkgPath == "", db and db_default are the struct tags.

B_user == <<117,115,101,114>>                             \* "user"
B_user_dept == <<117,115,101,114,44,100,101,112,116>>     \* "user,dept"
B_create_time == <<99,114,101,97,116,101,95,116,105,109,101>>   \* "create_time"
B_dept_name == <<100,101,112,116,46,110,97,109,101>>      \* "dept.name"

\* ID int64, tagged db_default:"auto"
FID == [Name |-> <<73,68>>, exported |-> TRUE, Anonymous |-> FALSE,
        db |-> <<>>, db_default |-> "auto"]
\* UserName string
FUserName == [Name |-> <<85,115,101,114,78,97,109,101>>, exported |-> TRUE,
              Anonymous |-> FALSE, db |-> <<>>, db_default |-> ""]
\* Ctime string, tagged db:"create_time" db_default:"now()"
FCtime == [Name |-> <<67,116,105,109,101>>, exported |-> TRUE, Anonymous |-> FALSE,
           db |-> B_create_time, db_default |-> "now()"]
\* Dept string, tagged db:"dept.name"
FDept == [Name |-> <<68,101,112,116>>, exported |-> TRUE, Anonymous |-> FALSE,
          db |-> B_dept_name, db_default |-> ""]
\* secret string (unexported)
FSecret == [Name |-> <<115,101,99,114,101,116>>, exported |-> FALSE,
            Anonymous |-> FALSE, db |-> <<>>, db_default |-> ""]
\* base (embedded struct of an unexported type)
FBase == [Name |-> <<98,97,115,101>>, exported |-> FALSE, Anonymous |-> TRUE,
          db |-> <<>>, db_default |-> ""]

Fields == {FID, FUserName, FCtime, FDept, FSecret, FBase}

\* field values of a record
Values == {"v1", "v2"}
ValuesOf(t) == [1..Len(t) -> Values]

\* if f.PkgPath != "" && !f.Anonymous { continue }
Skipped(f) == ~f.exported /\ ~f.Anonymous

\* reflect.Value.Interface() panics on a value obtained from an unexported
\* field, embedded or not
InterfacePanics(f) == ~f.exported

-----------------------------------------------------------------------------
\* The statement descriptor and the condition clause

NewStmt(table) ==
    [table |-> table, where |-> "", sort |-> "", order |-> "", group |-> "",
     offset |-> 0, limit |-> 0]

\* SQLCondition writing the offset whenever a limit is written and grouping
\* before ordering
SQLConditionMisordered(st, bs) ==
    LET b1 == IF st.where # "" THEN Append(bs, " where " \o st.where) ELSE bs
        b2 == IF st.group # "" THEN Append(b1, " group by " \o st.group) ELSE b1
        b3 == IF st.sort # ""
              THEN LET b == Append(b2, " order by " \o st.sort)
                   IN  IF st.order # "" THEN Append(b, " " \o st.order) ELSE b
              ELSE b2
    IN  IF st.limit > 0
        THEN b3 \o <<" limit ", ToString(st.offset) \o ",", ToString(st.limit)>>
        ELSE b3

\* SQLCondition: the fragments it appends to bs
SQLCondition(st, bs) ==
    LET b1 == IF st.where # "" THEN Append(bs, " where " \o st.where) ELSE bs
        b2 == IF st.sort # ""
              THEN LET b == Append(b1, " order by " \o st.sort)
                   IN  IF st.order # "" THEN Append(b, " " \o st.order) ELSE b
              ELSE b1
        b3 == IF st.group # "" THEN Append(b2, " group by " \o st.group) ELSE b2
    IN  IF st.limit > 0
        THEN LET b4 == Append(b3, " limit ")
                 b5 == IF st.offset > 0
                       THEN Append(b4, ToString(st.offset) \o ",") ELSE b4
             IN  Append(b5, ToString(st.limit))
        ELSE b3

\* SQLCount
SQLCount(st) == SQLCondition(st, <<"select count(" \o "*) from ", Str(st.table)>>)

RECURSIVE SQLQueryFrom(_, _, _, _)
\* the field loop of SQLQuery from field i on
SQLQueryFrom(st, t, i, bs) ==
    IF i > Len(t) THEN bs
    ELSE LET f == t[i] IN
         IF Skipped(f) THEN SQLQueryFrom(st, t, i + 1, bs)
         ELSE LET nm == ColumnName(f.Name, f.db)
                  b1 == IF ~ContainsDot(nm)
                        THEN Append(bs, Str(FirstTable(st.table)) \o ".")
                        ELSE bs
              IN  SQLQueryFrom(st, t, i + 1, b1 \o <<Str(nm), ", ">>)

\* SQLQuery: "select " is written as two fragments so that Truncate2 applies
SQLQuery(st, t) ==
    LET cols == Truncate2(SQLQueryFrom(st, t, 1, <<"selec", "t ">>))
    IN  SQLCondition(st, Append(cols, " from " \o Str(st.table)))

RECURSIVE SQLInsertFrom(_, _, _, _, _, _)
\* the field loop of SQLInsert from field i on; "panic" when
\* rv.Field(i).Interface() panics
SQLInsertFrom(t, val, i, bs, dbs, args) ==
    IF i > Len(t) THEN [bs |-> bs, dbs |-> dbs, refs |-> args, panic |-> FALSE]
    ELSE LET f == t[i] IN
         IF Skipped(f) \/ f.db_default = "auto"
         THEN SQLInsertFrom(t, val, i + 1, bs, dbs, args)
         ELSE LET b1 == bs \o <<Str(ColumnName(f.Name, f.db)), ", ">> IN
              IF f.db_default # ""
              THEN SQLInsertFrom(t, val, i + 1, b1, dbs \o <<f.db_default, ", ">>, args)
              ELSE IF InterfacePanics(f)
              THEN [bs |-> b1, dbs |-> Append(dbs, "?, "), refs |-> args, panic |-> TRUE]
              ELSE SQLInsertFrom(t, val, i + 1, b1, dbs \o <<"?", ", ">>,
                                 Append(args, val[i]))

\* SQLInsert: sql and refs, or a panic
SQLInsert(st, t, val) ==
    LET r == SQLInsertFrom(t, val, 1, <<"insert into ", Str(st.table), " (">>,
                           <<") values", " (">>, <<>>)
    IN  IF r.panic THEN [sql |-> <<>>, refs |-> <<>>, panic |-> TRUE]
        ELSE [sql |-> Truncate2(r.bs) \o Truncate2(r.dbs) \o <<") ">>,
              refs |-> r.refs, panic |-> FALSE]

\* the backquote character (U+0060), which a TLA+ string cannot hold
BQ == "'"

RECURSIVE SQLUpdateFrom(_, _, _, _, _)
\* the field loop of SQLUpdate from field i on
SQLUpdateFrom(t, val, i, bs, args) ==
    IF i > Len(t) THEN [bs |-> bs, refs |-> args, panic |-> FALSE]
    ELSE LET f == t[i] IN
         IF Skipped(f) \/ f.db_default = "auto"
         THEN SQLUpdateFrom(t, val, i + 1, bs, args)
         ELSE LET b1 == Append(bs, BQ \o Str(ColumnName(f.Name, f.db)) \o BQ \o "=") IN
              IF f.db_default # ""
              THEN SQLUpdateFrom(t, val, i + 1, b1 \o <<f.db_default, ", ">>, args)
              ELSE IF InterfacePanics(f)
              THEN [bs |-> Append(b1, "?, "), refs |-> args, panic |-> TRUE]
              ELSE SQLUpdateFrom(t, val, i + 1, b1 \o <<"?", ", ">>,
                                 Append(args, val[i]))

\* SQLUpdate: the leading "update <table> set " (table name in backquotes) is
\* written as two fragments so that Truncate2 applies
SQLUpdate(st, t, val) ==
    LET r == SQLUpdateFrom(t, val, 1,
                 <<"update " \o BQ \o Str(st.table) \o BQ \o " se", "t ">>, <<>>)
    IN  IF r.panic THEN [sql |-> <<>>, refs |-> <<>>, panic |-> TRUE]
        ELSE [sql |-> SQLCondition(st, Truncate2(r.bs)),
              refs |-> r.refs, panic |-> FALSE]

-----------------------------------------------------------------------------
\* Inputs of the calls

Tables == {B_user, B_user_dept}

\* Where(f, args...): f as its fragments, a verb being a fragment of its own
WhereInputs ==
    { [f |-> <<>>, args |-> <<>>],
      [f |-> <<"id = 1">>, args |-> <<>>],
      [f |-> <<"id = ", "%d">>, args |-> <<1>>] }
SortInputs == {"", "id"}
OrderInputs == {"", "desc"}
GroupInputs == {"", "dept"}
OffsetInputs == {-1, 0, 10}
LimitInputs == {-1, 0, 1, 5}

\* every struct type of at most MaxFields of the fields above
AllRecordTypes == {t \in SeqsUpTo(Fields, MaxFields) : IsInjective(t)}

\* record types passed to the calls on a descriptor in use
RecordTypes ==
    { <<>>, <<FSecret>>, <<FID>>, <<FBase>>, <<FID, FUserName>>,
      <<FDept, FCtime>> }

\* shapes of a Query / SQLQueryBuilder argument: nil, a non-pointer, a pointer
\* to a struct, to a slice of structs, to a non-struct non-slice, and to a
\* slice whose elements are not structs
TargetKinds == {"nil", "nonptr", "ptr_struct", "ptr_slice", "ptr_scalar", "ptr_slice_ptr"}

\* shapes of an Insert / Update argument: a struct, a pointer to a struct,
\* and a value that is neither
DataKinds == {"struct", "ptr_struct", "scalar"}

\* a cursor row: a record the scan yields, or "bad" when rows.Scan fails on it
Rows == {"r1", "r2", "bad"}
RowSeqs == SeqsUpTo(Rows, MaxRows)

\* what the result pointer may point to when the call starts
Targets(k) ==
    IF k = "ptr_struct" THEN {<<"old">>}
    ELSE IF k = "ptr_slice" THEN {<<>>, <<"old">>}
    ELSE {<<>>}

RECURSIVE Sprintf(_, _)
\* fmt.Sprintf(f, args...) for the %d verb
Sprintf(f, args) ==
    IF f = <<>> THEN ""
    ELSE IF Head(f) = "%d" /\ args # <<>>
    THEN ToString(Head(args)) \o Sprintf(Tail(f), Tail(args))
    ELSE Head(f) \o Sprintf(Tail(f), args)

-----------------------------------------------------------------------------
\* Builder methods (lines 41-78); they run between calls

Setter(st) ==
    /\ pc = "idle"
    /\ s' = st /\ s0' = st
    /\ UNCHANGED <<pc, op, kind, rt, target, target0, rows, rows0, rv, scanned,
                   nexts, cursor, acquired, ret, sql, refs, executed, dbok>>
    /\ UNCHANGED escVars

Where ==
    \E in \in WhereInputs :
        /\ Setter([s EXCEPT !.where = IF Len(in.args) > 0
                                      THEN Sprintf(in.f, in.args)
                                      ELSE Join(in.f)])
        /\ UNCHANGED forced

Sort == \E x \in SortInputs : Setter([s EXCEPT !.sort = x]) /\ UNCHANGED forced

Group == \E x \in GroupInputs : Setter([s EXCEPT !.group = x]) /\ UNCHANGED forced

Order == \E x \in OrderInputs : Setter([s EXCEPT !.order = x]) /\ UNCHANGED forced

Offset == \E x \in OffsetInputs : Setter([s EXCEPT !.offset = x]) /\ UNCHANGED forced

Limit == \E x \in LimitInputs : Setter([s EXCEPT !.limit = x]) /\ forced' = FALSE

-----------------------------------------------------------------------------
\* Target-shape inference shared by SQLQueryBuilder and Query (lines 82-99,
\* 175-193)

\* ForceLimit forcing the limit only when none is set
ForceLimitIfUnset(st, k) ==
    IF k \in {"ptr_struct", "ptr_scalar"} /\ st.limit = 0
    THEN [st EXCEPT !.limit = 1] ELSE st

\* ForceLimit forcing the limit for every target, collections included
ForceLimitAlways(st, k) == [st EXCEPT !.limit = 1]

\* the descriptor after the shape inference: a pointer to anything but a
\* slice sets limit to 1
ForceLimit(st, k) ==
    IF k \in {"ptr_struct", "ptr_scalar"} THEN [st EXCEPT !.limit = 1] ELSE st

\* how the shape inference ends: "ok" when SQL is to be compiled
Shape(k, t) ==
    IF k = "nil" THEN "panic"                         \* rt.Kind() on a nil Type
    ELSE IF k = "nonptr" THEN "InvalidTargetKind"     \* result type must be ptr
    ELSE IF k \in {"ptr_scalar", "ptr_slice_ptr"} THEN "panic"   \* NumField of non-struct
    ELSE IF Len(t) = 0 THEN "EmptyRecord"             \* result not found field
    ELSE "ok"

\* the call has no cursor
NoCursor ==
    /\ rows' = <<>> /\ rows0' = <<>> /\ rv' = <<>>
    /\ scanned' = 0 /\ nexts' = 0 /\ acquired' = 0
    /\ UNCHANGED cursor

\* the cursor is not closed
DeferredCloseMissing(c) == c

\* defer rows.Close() running at the return (or panic) of the call
DeferredClose(c) == c - 1

SQLQueryBuilder ==
    \E k \in TargetKinds, t \in RecordTypes :
        /\ pc = "idle"
        /\ k \in {"ptr_struct", "ptr_slice"} \/ t = <<>>   \* only structs have fields
        /\ op' = "SQLQueryBuilder" /\ kind' = k /\ rt' = t /\ s0' = s
        /\ target' = <<>> /\ target0' = <<>> /\ refs' = <<>>
        /\ s' = ForceLimit(s, k)
        /\ forced' = (forced \/ k = "ptr_struct")
        /\ ret' = IF Shape(k, t) = "ok" THEN "nil" ELSE Shape(k, t)
        /\ sql' = IF Shape(k, t) = "ok" THEN SQLQuery(s', t) ELSE <<>>
        /\ executed' = FALSE /\ dbok' = FALSE
        /\ NoCursor
        /\ pc' = "returned"
        /\ UNCHANGED escVars

-----------------------------------------------------------------------------
\* Query (lines 174-238), in steps: the call up to the compiled SQL, db.Query,
\* one step per row of the loop, and the code after the loop

\* obj.Elem().Field(i).Addr().Interface() panics while the refs of a row are
\* collected
RefsPanic(t) == \E i \in 1..Len(t) : ~Skipped(t[i]) /\ InterfacePanics(t[i])

\* rv.Kind() == reflect.Struct || rv.Len() == 0, after the loop
NotFoundAfterLoop(k, acc) == k = "ptr_struct" \/ Len(acc) = 0

QueryCall ==
    \E k \in TargetKinds, t \in RecordTypes :
      \E tgt \in Targets(k) :
        /\ pc = "idle"
        /\ k \in {"ptr_struct", "ptr_slice"} \/ t = <<>>   \* only structs have fields
        /\ op' = "Query" /\ kind' = k /\ rt' = t /\ s0' = s
        /\ target' = tgt /\ target0' = tgt /\ refs' = <<>>
        /\ s' = ForceLimit(s, k)
        /\ forced' = (forced \/ k = "ptr_struct")
        /\ dbok' = FALSE
        /\ NoCursor
        /\ IF Shape(k, t) # "ok"
           THEN /\ ret' = Shape(k, t)
                /\ sql' = <<>> /\ executed' = FALSE
                /\ pc' = "returned"
           ELSE /\ ret' = "running"
                /\ sql' = SQLQuery(s', t) /\ executed' = FALSE
                /\ pc' = "exec"
        /\ UNCHANGED escVars

\* rows, err := s.db.Query(sql); defer rows.Close(); rv := ...Elem()
QueryExec ==
    \E ok \in BOOLEAN, rs \in RowSeqs :
        /\ pc = "exec" /\ op = "Query"
        /\ executed' = TRUE /\ dbok' = ok
        /\ IF ~ok
           THEN /\ ret' = "DriverError"
                /\ pc' = "returned"
                /\ UNCHANGED <<cursor, acquired, rows, rows0, rv>>
           ELSE /\ cursor' = cursor + 1 /\ acquired' = 1
                /\ rows' = rs /\ rows0' = rs
                /\ rv' = target
                /\ pc' = "rows"
                /\ UNCHANGED ret
        /\ UNCHANGED <<s, op, kind, rt, target, target0, scanned, nexts, sql,
                       refs, s0, forced>>
        /\ UNCHANGED escVars

\* one iteration of for rows.Next() { ... }
QueryRow ==
    /\ pc = "rows" /\ op = "Query" /\ rows # <<>>
    /\ nexts' = nexts + 1
    /\ IF RefsPanic(rt)
       THEN /\ ret' = "panic"
            /\ cursor' = DeferredClose(cursor) /\ pc' = "returned"
            /\ UNCHANGED <<target, rv, rows, scanned>>
       ELSE IF Head(rows) = "bad"
       THEN /\ ret' = "ScanError"
            /\ cursor' = DeferredClose(cursor) /\ pc' = "returned"
            /\ UNCHANGED <<target, rv, rows, scanned>>
       ELSE IF kind = "ptr_struct"
       THEN /\ target' = <<Head(rows)>>
            /\ ret' = "nil"
            /\ scanned' = scanned + 1
            /\ cursor' = DeferredClose(cursor) /\ pc' = "returned"
            /\ UNCHANGED <<rv, rows>>
       ELSE /\ rv' = Append(rv, Head(rows))
            /\ rows' = Tail(rows)
            /\ scanned' = scanned + 1
            /\ UNCHANGED <<target, ret, cursor, pc>>
    /\ UNCHANGED <<s, op, kind, rt, target0, rows0, acquired, sql, refs,
                   executed, s0, forced, dbok>>
    /\ UNCHANGED escVars

\* rows.Next() returned false
QueryDone ==
    /\ pc = "rows" /\ op = "Query" /\ rows = <<>>
    /\ IF NotFoundAfterLoop(kind, rv)
       THEN ret' = "ErrNotFound" /\ UNCHANGED target
       ELSE ret' = "nil" /\ target' = rv
    /\ cursor' = DeferredClose(cursor) /\ pc' = "returned"
    /\ UNCHANGED <<s, op, kind, rt, target0, rows, rows0, rv, scanned, nexts,
                   acquired, sql, refs, executed, s0, forced, dbok>>
    /\ UNCHANGED escVars

-----------------------------------------------------------------------------
\* Count (lines 241-256), in two steps

\* the cursor of a count: its one row, that row failing to scan, or no row
CountRows == {<<"n">>, <<"bad">>, <<>>}

CountCall ==
    \E ok \in BOOLEAN, rs \in CountRows :
        /\ pc = "idle"
        /\ op' = "Count" /\ kind' = "none" /\ rt' = <<>> /\ s0' = s
        /\ target' = <<>> /\ target0' = <<>> /\ refs' = <<>>
        /\ sql' = SQLCount(s) /\ executed' = TRUE /\ dbok' = ok
        /\ scanned' = 0 /\ nexts' = 0 /\ rv' = <<>>
        /\ IF ~ok
           THEN /\ ret' = "DriverError"
                /\ rows' = <<>> /\ rows0' = <<>> /\ acquired' = 0
                /\ pc' = "returned"
                /\ UNCHANGED cursor
           ELSE /\ ret' = "running"
                /\ cursor' = cursor + 1 /\ acquired' = 1
                /\ rows' = rs /\ rows0' = rs
                /\ pc' = "count"
        /\ UNCHANGED <<s, forced>>
        /\ UNCHANGED escVars

\* rows.Next(); rows.Scan(&n); return
CountScan ==
    /\ pc = "count" /\ op = "Count"
    /\ nexts' = IF rows # <<>> THEN 1 ELSE 0
    /\ IF rows = <<>> \/ Head(rows) = "bad"
       THEN ret' = "ScanError" /\ UNCHANGED <<target, scanned>>
       ELSE ret' = "nil" /\ target' = rows /\ scanned' = 1
    /\ cursor' = DeferredClose(cursor) /\ pc' = "returned"
    /\ UNCHANGED <<s, op, kind, rt, target0, rows, rows0, rv, acquired, sql,
                   refs, executed, s0, forced, dbok>>
    /\ UNCHANGED escVars

-----------------------------------------------------------------------------
\* Insert and Update (lines 361-402)

\* how an Insert / Update ends once its compiler returned r
Mutation(o, k, t, val, r, ok) ==
    /\ pc = "idle"
    /\ op' = o /\ kind' = k /\ rt' = t /\ s0' = s
    /\ target' = val /\ target0' = val
    /\ k = "scalar" => t = <<>>                       \* only structs have fields
    /\ IF k = "scalar"
       THEN /\ ret' = "panic"                        \* NumField of non-struct
            /\ sql' = <<>> /\ refs' = <<>> /\ executed' = FALSE /\ dbok' = FALSE
       ELSE IF Len(t) = 0
       THEN /\ ret' = "EmptyRecord"                  \* data not found field
            /\ sql' = <<>> /\ refs' = <<>> /\ executed' = FALSE /\ dbok' = FALSE
       ELSE IF r.panic
       THEN /\ ret' = "panic"
            /\ sql' = <<>> /\ refs' = <<>> /\ executed' = FALSE /\ dbok' = FALSE
       ELSE /\ sql' = r.sql /\ refs' = r.refs /\ executed' = TRUE /\ dbok' = ok
            /\ ret' = IF ok THEN "nil" ELSE "DriverError"
    /\ NoCursor
    /\ pc' = "returned"
    /\ UNCHANGED <<s, forced>>
    /\ UNCHANGED escVars

InsertOf(types) ==
    \E k \in DataKinds, t \in types, ok \in BOOLEAN :
        \E val \in ValuesOf(t) :
            Mutation("Insert", k, t, val, SQLInsert(s, t, val), ok)

UpdateOf(types) ==
    \E k \in DataKinds, t \in types, ok \in BOOLEAN :
        \E val \in ValuesOf(t) :
            Mutation("Update", k, t, val, SQLUpdate(s, t, val), ok)

Insert == InsertOf(RecordTypes)

Update == UpdateOf(RecordTypes)

-----------------------------------------------------------------------------
\* The descriptor in use

\* what is recorded of a call, when no call was made
NoCall ==
    /\ op = "none" /\ kind = "none" /\ rt = <<>>
    /\ target = <<>> /\ target0 = <<>> /\ rows = <<>> /\ rows0 = <<>> /\ rv = <<>>
    /\ scanned = 0 /\ nexts = 0 /\ acquired = 0
    /\ ret = "none" /\ sql = <<>> /\ refs = <<>> /\ executed = FALSE /\ dbok = FALSE

\* the caller has the result of the call and goes on; the record of the call
\* is cleared
Return ==
    /\ pc = "returned"
    /\ pc' = "idle"
    /\ op' = "none" /\ kind' = "none" /\ rt' = <<>>
    /\ target' = <<>> /\ target0' = <<>> /\ rows' = <<>> /\ rows0' = <<>>
    /\ rv' = <<>> /\ scanned' = 0 /\ nexts' = 0 /\ acquired' = 0
    /\ ret' = "none" /\ sql' = <<>> /\ refs' = <<>> /\ executed' = FALSE
    /\ dbok' = FALSE
    /\ s0' = s
    /\ UNCHANGED <<s, cursor, forced>>
    /\ UNCHANGED escVars

EscIdle == ident = <<>> /\ tag = <<>> /\ name = <<>> /\ epc = "off"

Init ==
    /\ \E tb \in Tables : s = NewStmt(tb)
    /\ pc = "idle" /\ cursor = 0 /\ s0 = s /\ forced = FALSE
    /\ NoCall
    /\ EscIdle

Next ==
    \/ Where \/ Sort \/ Group \/ Order \/ Offset \/ Limit
    \/ SQLQueryBuilder
    \/ QueryCall \/ QueryExec \/ QueryRow \/ QueryDone
    \/ CountCall \/ CountScan
    \/ Insert \/ Update
    \/ Return

Spec == Init /\ [][Next]_vars

-----------------------------------------------------------------------------
\* The mutation compilers over every record type

InsertAny == InsertOf(AllRecordTypes)

UpdateAny == UpdateOf(AllRecordTypes)

NextMutation == Where \/ Limit \/ InsertAny \/ UpdateAny \/ Return

SpecMutation == Init /\ [][NextMutation]_vars

-----------------------------------------------------------------------------
\* Name resolution over every identifier

\* runes of the enumerated identifiers: A D a d, e-acute (U+00E9),
\* A-macron (U+0100)
Alphabet == {65, 68, 97, 100, 233, 256}

I_UserID == <<85,115,101,114,73,68>>                      \* "UserID"
I_HTTPStatus == <<72,84,84,80,83,116,97,116,117,115>>     \* "HTTPStatus"
I_id == <<105,100>>                                       \* "id"

Idents ==
    {k \in SeqsUpTo(Alphabet, MaxLen) : k # <<>>} \cup {I_UserID, I_HTTPStatus, I_id}

TagInputs == {<<>>, B_create_time, B_dept_name}

InitEscape ==
    /\ s = NewStmt(B_user)
    /\ pc = "idle" /\ cursor = 0 /\ s0 = s /\ forced = FALSE
    /\ NoCall
    /\ ident \in Idents /\ tag \in TagInputs /\ name = <<>> /\ epc = "start"

\* the column name of a field is resolved (lines 153-156, 274-277, 335-338)
Resolve ==
    /\ epc = "start"
    /\ name' = ColumnName(ident, tag)
    /\ epc' = "done"
    /\ UNCHANGED <<ident, tag>>
    /\ UNCHANGED execVars

NextEscape == Resolve

SpecEscape == InitEscape /\ [][NextEscape]_vars

-----------------------------------------------------------------------------
\* Properties

Returned(o) == pc = "returned" /\ op = o

\* the text of the limit clause of a compiled statement, "" if it has none
CompiledLimit(q) ==
    IF \E i \in 1..Len(q) : q[i] = " limit " THEN q[Len(q)] ELSE ""

LimitClauses(q) == Cardinality({i \in 1..Len(q) : q[i] = " limit "})

\* C1: a Query that executed without driver error on a cursor of zero rows
\* returns ErrNotFound and leaves the target unchanged, for a single-record
\* and for a collection target; it never returns ErrNotFound once a row was
\* scanned successfully.
NotFoundIffNoRows ==
    (Returned("Query") /\ acquired = 1) =>
        /\ rows0 = <<>> => (ret = "ErrNotFound" /\ target = target0)
        /\ scanned >= 1 => ret # "ErrNotFound"
        /\ ret = "ErrNotFound" => target = target0

\* C2: a statement compiled by Query or SQLQueryBuilder for a pointer to a
\* single record has limit exactly 1, whatever limit and offset the
\* descriptor had; for a pointer to a collection it has the descriptor's own
\* limit, which the call leaves unchanged.
SingleRecordLimitOne ==
    (op \in {"Query", "SQLQueryBuilder"} /\ sql # <<>>) =>
        /\ LimitClauses(sql) <= 1
        /\ kind = "ptr_struct" => CompiledLimit(sql) = "1"
        /\ kind = "ptr_slice" =>
              /\ s.limit = s0.limit
              /\ CompiledLimit(sql) = IF s0.limit > 0 THEN ToString(s0.limit) ELSE ""

SingleRecordLimitOneWitness ==
    /\ Returned("Query") /\ kind = "ptr_struct" /\ ret = "nil"
    /\ s0.limit = 5 /\ s0.offset = 10 /\ CompiledLimit(sql) = "1"

\* the condition clause as the documentation words it
ConditionText(st) ==
    (IF st.where # "" THEN " where " \o st.where ELSE "")
    \o (IF st.sort # ""
        THEN " order by " \o st.sort \o (IF st.order # "" THEN " " \o st.order ELSE "")
        ELSE "")
    \o (IF st.group # "" THEN " group by " \o st.group ELSE "")
    \o (IF st.limit > 0
        THEN " limit " \o (IF st.offset > 0 THEN ToString(st.offset) \o "," ELSE "")
             \o ToString(st.limit)
        ELSE "")

\* the condition clause of the statement a Count compiled
CountCondition == SubSeq(sql, 3, Len(sql))

\* C4: the condition clause is where, order by (direction only with a sort),
\* group by, limit, in this order, each present iff its field is set
\* (limit > 0), with at most one limit clause and the offset prefix only when
\* limit > 0 and offset > 0; the documented example renders exactly
\* " where id = 1 order by id desc limit 10,5" and an empty descriptor "".
ConditionClauses ==
    (op = "Count" /\ pc \in {"count", "returned"}) =>
        /\ Join(CountCondition) = ConditionText(s0)
        /\ LimitClauses(sql) <= 1
        /\ (s0.limit > 0) = (LimitClauses(sql) = 1)
        /\ (s0.where = "id = 1" /\ s0.sort = "id" /\ s0.order = "desc"
            /\ s0.group = "" /\ s0.limit = 5 /\ s0.offset = 10)
              => Join(CountCondition) = " where id = 1 order by id desc limit 10,5"
        /\ (s0.where = "" /\ s0.sort = "" /\ s0.group = "" /\ s0.limit = 0)
              => Join(CountCondition) = ""

ConditionClausesWitness ==
    /\ Returned("Count")
    /\ s0.where = "id = 1" /\ s0.sort = "id" /\ s0.order = "desc"
    /\ s0.group = "" /\ s0.limit = 5 /\ s0.offset = 10
    /\ Join(CountCondition) = " where id = 1 order by id desc limit 10,5"

\* indices of the fields of t the mutation compilers map: those that pass
\* the visibility filter and are not tagged auto
MappedForMutation(t) ==
    {i \in 1..Len(t) : ~Skipped(t[i]) /\ t[i].db_default # "auto"}

\* indices of the fields of t the query compiler maps
MappedForQuery(t) == {i \in 1..Len(t) : ~Skipped(t[i])}

RECURSIVE Ascending(_)
\* the indices of idx in increasing order
Ascending(idx) ==
    IF idx = {} THEN <<>>
    ELSE LET i == CHOOSE i \in idx : \A j \in idx : i <= j
         IN  <<i>> \o Ascending(idx \ {i})

\* g(i) for the indices i of idx, in increasing order
Pick(idx, g(_)) == LET a == Ascending(idx) IN [j \in 1..Len(a) |-> g(a[j])]

ColumnTexts == {Str(ColumnName(f.Name, f.db)) : f \in Fields}
ColumnAssignTexts == {BQ \o c \o BQ \o "=" : c \in ColumnTexts}
ValueTexts == {"?"} \cup ({f.db_default : f \in Fields} \ {"", "auto"})

IsColumnText(x) == x \in ColumnTexts \cup ColumnAssignTexts
IsValueText(x) == x \in ValueTexts
IsPlaceholder(x) == x = "?"

\* the columns and the value texts of a compiled insert / update, in order
ColumnFragments(q) == SelectSeq(q, IsColumnText)
ValueFragments(q) == SelectSeq(q, IsValueText)
Placeholders(q) == Len(SelectSeq(q, IsPlaceholder))

\* what the fields of the last call contribute, as the documentation says
ExpectedColumn(i) ==
    IF op = "Update" THEN BQ \o Str(ColumnName(rt[i].Name, rt[i].db)) \o BQ \o "="
    ELSE Str(ColumnName(rt[i].Name, rt[i].db))
ExpectedValueText(i) == IF rt[i].db_default # "" THEN rt[i].db_default ELSE "?"
ExpectedRef(i) == target0[i]

\* the fields whose value is bound
BoundFields(t) == {i \in MappedForMutation(t) : t[i].db_default = ""}

\* the compiler of the last Insert / Update returned sql and refs that
\* follow the per-field rules
PerFieldRules ==
    /\ ColumnFragments(sql) = Pick(MappedForMutation(rt), ExpectedColumn)
    /\ ValueFragments(sql) = Pick(MappedForMutation(rt), ExpectedValueText)
    /\ refs = Pick(BoundFields(rt), ExpectedRef)
    /\ Placeholders(sql) = Len(refs)

\* C3: for every record type SQLInsert and SQLUpdate take the mapped fields
\* in declaration order: an auto field contributes nothing, a field with a
\* literal default its column and the literal, every other mapped field its
\* column, one placeholder and one bound argument equal to its value; the
\* placeholders of the SQL are as many as the bound arguments.
MutationPerField ==
    (pc = "returned" /\ op \in {"Insert", "Update"} /\ rt # <<>>
     /\ kind \in {"struct", "ptr_struct"}) =>
        /\ ret # "panic"
        /\ PerFieldRules

\* the rune a capital is the upper case of
ToLower(c) ==
    IF c \in 65..90 \/ c \in 192..214 \/ c \in 216..222 THEN c + 32
    ELSE IF c \in 256..310 /\ c % 2 = 0 THEN c + 1
    ELSE c

\* the UTF-8 encoding of a rune below U+0800
UTF8(c) == IF c < 128 THEN <<c>> ELSE <<192 + (c \div 64), 128 + (c % 64)>>

RECURSIVE SnakeCase(_, _)
\* the identifier k from rune i on, in lower case with underscores
SnakeCase(k, i) ==
    IF i > Len(k) THEN <<>>
    ELSE (IF IsUpper(k[i])
          THEN (IF i > 1 /\ ~IsUpper(k[i - 1]) THEN <<95>> ELSE <<>>)
               \o UTF8(ToLower(k[i]))
          ELSE UTF8(k[i]))
         \o SnakeCase(k, i + 1)

\* C5: a non-empty db tag is the column name verbatim; otherwise every
\* upper-case letter of the identifier is lowercased, with an underscore
\* before it unless it is the first character or follows another upper-case
\* letter; UserID gives user_id, HTTPStatus http_status, id id.
ColumnNameResolution ==
    epc = "done" =>
        /\ name = IF tag # <<>> THEN tag ELSE SnakeCase(ident, 1)
        /\ (tag = <<>> /\ ident = I_UserID) => Str(name) = "user_id"
        /\ (tag = <<>> /\ ident = I_HTTPStatus) => Str(name) = "http_status"
        /\ (tag = <<>> /\ ident = I_id) => Str(name) = "id"

\* C6: a record type without mapped fields is rejected with an error by
\* Query, SQLQueryBuilder, Insert and Update before any SQL is built or
\* executed; mapped fields are those that pass the visibility filter and,
\* for Insert and Update, are not tagged auto.
ZeroMappedRejected ==
    /\ (op \in {"Query", "SQLQueryBuilder"} /\ kind \in {"ptr_struct", "ptr_slice"}
        /\ MappedForQuery(rt) = {})
          => (sql = <<>> /\ ~executed /\ (pc = "returned" => ret = "EmptyRecord"))
    /\ (op \in {"Insert", "Update"} /\ kind \in {"struct", "ptr_struct"}
        /\ MappedForMutation(rt) = {})
          => (sql = <<>> /\ ~executed /\ (pc = "returned" => ret = "EmptyRecord"))

\* C7: Query and SQLQueryBuilder return InvalidTargetKind, without building
\* or executing SQL and without panicking, for a non-pointer, a pointer to a
\* non-record scalar and a pointer to a collection of non-records.
InvalidTargetRejected ==
    (op \in {"Query", "SQLQueryBuilder"}
     /\ kind \in {"nonptr", "ptr_scalar", "ptr_slice_ptr"})
        => (sql = <<>> /\ ~executed /\ (pc = "returned" => ret = "InvalidTargetKind"))

\* C8: every cursor Query or Count acquires is released when the call
\* returns, on every exit path; no call returns with an open cursor, one
\* cursor at most is open while a call runs, and none is acquired when the
\* storage query fails.
CursorReleased ==
    /\ pc \in {"idle", "exec", "returned"} => cursor = 0
    /\ pc \in {"rows", "count"} => (cursor = 1 /\ acquired = 1)
    /\ (pc = "returned" /\ op \in {"Query", "Count"} /\ executed /\ ~dbok)
          => acquired = 0

CursorReleasedWitness ==
    /\ Returned("Query") /\ ret = "ScanError" /\ acquired = 1 /\ cursor = 0
    /\ kind = "ptr_slice" /\ scanned = 1

\* C9: with a single-record target the first row of the cursor is assigned
\* and the call succeeds at once, having advanced the cursor once; with a
\* collection target every row is scanned and on success the target holds
\* exactly the rows of the cursor in cursor order; a failing scan ends the
\* call with that error, reads no further row and leaves the target as it
\* was.
RowIteration ==
    (Returned("Query") /\ acquired = 1) =>
        /\ (kind = "ptr_struct" /\ rows0 # <<>> /\ Head(rows0) # "bad")
              => (ret = "nil" /\ target = <<Head(rows0)>> /\ nexts = 1 /\ scanned = 1)
        /\ (kind = "ptr_slice" /\ ret = "nil")
              => (target = rows0 /\ scanned = Len(rows0))
        /\ (kind = "ptr_slice" /\ rows0 # <<>> /\ \A i \in 1..Len(rows0) : rows0[i] # "bad")
              => ret = "nil"
        /\ ret = "ScanError"
              => (target = target0 /\ rows0[nexts] = "bad" /\ scanned = nexts - 1)

\* the descriptor fields a compile or execute call never writes
Frame(st) == [st EXCEPT !.limit = 0]

\* the last fragments of a statement compiled with limit 1
LimitOneTail(st) ==
    IF st.offset > 0 THEN <<" limit ", ToString(st.offset) \o ",", "1">>
    ELSE <<" limit ", "1">>

EndsWith(q, tail) ==
    Len(q) >= Len(tail) /\ SubSeq(q, Len(q) - Len(tail) + 1, Len(q)) = tail

\* C10: Query and SQLQueryBuilder with a single-record target set the
\* limit of the descriptor to 1 before the zero-field test and before the
\* execution and never restore it; no compile or execute call changes
\* another field of the descriptor. After such a call, failed or not, every
\* Count, Update and collection Query on the descriptor compiles " limit 1"
\* (with the offset prefix if offset > 0) until Limit is called.
LimitOneSticks ==
    /\ forced => s.limit = 1
    /\ (op \in {"Query", "SQLQueryBuilder"} /\ kind = "ptr_struct") => s.limit = 1
    /\ op # "none" => Frame(s) = Frame(s0)
    /\ (op \in {"Count", "Update", "Insert"}
        \/ (op \in {"Query", "SQLQueryBuilder"} /\ kind \notin {"ptr_struct", "ptr_scalar"}))
          => s = s0
    /\ (forced /\ sql # <<>>
        /\ (op \in {"Count", "Update"} \/ (op = "Query" /\ kind = "ptr_slice")))
          => EndsWith(sql, LimitOneTail(s))

LimitOneSticksWitness ==
    /\ forced /\ Returned("Update") /\ ret = "nil"
    /\ s0.limit = 1 /\ s.offset = 10
    /\ EndsWith(sql, <<" limit ", "10,", "1">>)

====
